---- MODULE Spec2Model ----
(***************************************************************************)
(* Model of inkscape-figures: the roots registry (add_root / get_roots),   *)
(* the recompilation pipeline (maybe_recompile_figure) and the two watch   *)
(* daemons (watch_daemon_inotify, watch_daemon_fswatch).                   *)
(*                                                                         *)
(* A string is a sequence of tokens.  A directory is one token ("a"        *)
(* stands for an absolute directory such as /tmp/a), "/" and "." and "\n"  *)
(* are tokens of their own, and a version string is a sequence of          *)
(* one-character tokens.                                                   *)
(***************************************************************************)
EXTENDS Integers, Sequences, FiniteSets, TLC

\* ------------------------------------------------------------------ bounds
\* add_root calls made by the writer processes in one behaviour
MaxAdds == 2
\* file writes (close-after-write) made by the environment in one behaviour
MaxWrites == 1
\* longest converter version output enumerated for the command builder
MaxVerLen == 4
\* removals of roots_file and deaths of the fswatch child in one behaviour
MaxFaults == 1
\* empty reads at end-of-file followed between two spawns of the child
MaxEofReads == 2

\* ------------------------------------------------------------ string helpers
NL == "\n"
Range(s) == {s[i] : i \in DOMAIN s}

\* str.split(sep): the pieces between the separators, empty pieces included
RECURSIVE Split(_, _)
Split(s, sep) ==
    IF \A i \in DOMAIN s : s[i] # sep
    THEN <<s>>
    ELSE LET k == CHOOSE i \in DOMAIN s :
                     s[i] = sep /\ \A j \in 1..(i - 1) : s[j] # sep
         IN  <<SubSeq(s, 1, k - 1)>> \o Split(SubSeq(s, k + 1, Len(s)), sep)

\* sep.join(parts)
RECURSIVE Join(_, _)
Join(parts, sep) ==
    IF parts = <<>> THEN <<>>
    ELSE IF Len(parts) = 1 THEN parts[1]
    ELSE parts[1] \o <<sep>> \o Join(Tail(parts), sep)

NonEmpty(line) == line # <<>>

\* ------------------------------------------------------------------- paths
UserDir == "userdir"
Dirs == {"a", "b"}
\* str(root) of a watched directory
DirStr(d) == <<d>>
\* Path(path) / filename
PathJoin(path, filename) == path \o <<"/">> \o filename
\* roots_file = user_dir / "roots"
roots_file == PathJoin(<<UserDir>>, <<"roots">>)
\* template = user_dir / "template.svg"
template == PathJoin(<<UserDir>>, <<"template", ".", "svg">>)

\* the last "/" of a path, 0 when there is none
LastSlash(p) ==
    IF \E i \in DOMAIN p : p[i] = "/"
    THEN CHOOSE i \in DOMAIN p : p[i] = "/" /\ \A j \in (i + 1)..Len(p) : p[j] # "/"
    ELSE 0
\* PurePath.name and PurePath.parent
PathName(p) == SubSeq(p, LastSlash(p) + 1, Len(p))
PathParent(p) == SubSeq(p, 1, LastSlash(p) - 1)

\* name.rfind("."), 1-based; 0 when there is no dot
LastDot(name) ==
    IF \E i \in DOMAIN name : name[i] = "."
    THEN CHOOSE i \in DOMAIN name :
             name[i] = "." /\ \A j \in (i + 1)..Len(name) : name[j] # "."
    ELSE 0
\* PurePath.suffix: the last dot and what follows, unless the dot is the
\* first or the last token of the name
PathSuffix(p) ==
    LET name == PathName(p)
        i == LastDot(name)
    IN  IF 1 < i /\ i < Len(name) THEN SubSeq(name, i, Len(name)) ELSE <<>>
\* PurePath.stem
PathStem(p) ==
    LET name == PathName(p)
        i == LastDot(name)
    IN  IF 1 < i /\ i < Len(name) THEN SubSeq(name, 1, i - 1) ELSE name

\* ------------------------------------------------------------------- state
VARIABLES
    file,        \* content of roots_file
    apc,         \* per writer: position inside add_root ("idle": not in a
                 \* call, "noop": not in a call, the last one returned at
                 \* line 90)
    aroots,      \* per writer: the local list roots of add_root
    aarg,        \* per writer: the path argument of its last add_root call
    addsLeft,    \* add_root calls still allowed by MaxAdds
    completed,   \* paths whose add_root call has returned
    everPresent, \* paths that some finished write has put into roots_file
    backend,     \* "inotify" or "fswatch": watcher_cmd chosen by watch()
    readable,    \* the directories add_watch can register
    dpc,         \* position of the daemon
    roots,       \* the daemon's local list roots
    watches,     \* paths watched by the current event source
    queue,       \* events delivered by the current event source, unread
    writesLeft,  \* environment file writes still allowed by MaxWrites
    doneAtEvent, \* completed, as it was when the last registry event was read
    filepath,    \* maybe_recompile_figure: its argument
    version,     \* maybe_recompile_figure: inkscape_version (probe output)
    number,      \* maybe_recompile_figure: inkscape_version_number
    command,     \* maybe_recompile_figure: command
    raised,      \* the exception that left maybe_recompile_figure, or "none"
    returncode,  \* completed_process.returncode of the last export
    nProbe,      \* version probes started
    nExport,     \* export commands run
    nSnippet,    \* pyperclip.copy calls
    clipboard,   \* the text last given to pyperclip.copy
    exists,      \* roots_file exists
    child,       \* the fswatch child p: its arguments, and whether it runs
    eofReads,    \* the times readline() on the child's stdout returned ""
    faultsLeft,  \* environment faults still allowed by MaxFaults
    delivered,   \* the paths of the file events the event sources delivered
    dispatched,  \* the arguments of the daemon's maybe_recompile_figure calls
    reloads,     \* the registry events the daemon has read and reloaded on
    twin         \* a second daemon, of the fswatch backend, run beside the
                 \* first: its position, its local roots, the directories
                 \* its child watches, its pipe, and its own two logs

registryVars == <<file, apc, aroots, aarg, addsLeft, completed, everPresent>>
daemonVars == <<backend, readable, dpc, roots, watches, queue, writesLeft,
                doneAtEvent>>
pipelineVars == <<filepath, version, number, command, raised, returncode,
                  nProbe, nExport, nSnippet, clipboard>>
sourceVars == <<exists, child, eofReads, faultsLeft>>
logVars == <<delivered, dispatched, reloads>>
vars == <<registryVars, daemonVars, pipelineVars, sourceVars, logVars, twin>>

\* ---------------------------------------------------------------- registry
Writers == {"w1", "w2"}

\* get_roots(): read_text().split("\n"), empty lines dropped
get_roots(text) == SelectSeq(Split(text, NL), NonEmpty)

\* roots_file.write_text("\n".join(roots)) writes this text
RootsText(rs) == Join(rs, NL)

\* the paths the persisted registry holds
Registered(text) == Range(get_roots(text))

\* what the event source reports for a close-after-write of path/filename:
\* inotify yields (path, filename) of the watch that saw it, fswatch prints
\* the full path as one line
EventOf(path, filename) ==
    IF backend = "inotify"
    THEN [path |-> path, filename |-> filename]
    ELSE IF filename = <<>> THEN path ELSE PathJoin(path, filename)

\* the event a close-after-write of roots_file produces, when it is watched:
\* inotify watches the file itself, fswatch watches user_dir
RootsFileWatched ==
    IF backend = "inotify" THEN roots_file \in watches ELSE <<UserDir>> \in watches
RootsFileEvent == EventOf(roots_file, <<>>)

\* the fswatch child of the second daemon prints the path of a change in a
\* directory it watches
TwinReport(dir, path) ==
    IF dir \in twin.watches
    THEN [twin EXCEPT !.queue = Append(@, path)]
    ELSE twin

\* "if path in roots" of add_root
AlreadyPresentNever(path, rs) == FALSE
AlreadyPresent(path, rs) == path \in Range(rs)

\* add_root(path), lines 87-92: path = str(path); roots = get_roots();
\* "if path in roots: return None"; otherwise roots.append(path).  The
\* local list of a call is gone when it returns (add_write).  The process
\* that calls add_root has imported the module, which creates roots_file
\* when it is absent (lines 73-74); fswatch reports the new file
add_read(w, d) ==
    LET path == DirStr(d)
        rs == get_roots(file)
    IN  /\ apc[w] \in {"idle", "noop"}
        /\ addsLeft > 0
        /\ addsLeft' = addsLeft - 1
        /\ exists' = TRUE
        /\ queue' = IF ~exists /\ backend = "fswatch" /\ RootsFileWatched
                    THEN Append(queue, RootsFileEvent)
                    ELSE queue
        /\ aarg' = [aarg EXCEPT ![w] = path]
        /\ IF AlreadyPresent(path, rs)
           THEN /\ apc' = [apc EXCEPT ![w] = "noop"]
                /\ completed' = completed \cup {path}
                /\ UNCHANGED aroots
           ELSE /\ apc' = [apc EXCEPT ![w] = "open"]
                /\ aroots' = [aroots EXCEPT ![w] = Append(rs, path)]
                /\ UNCHANGED completed
        /\ UNCHANGED <<file, everPresent, backend, readable, dpc, roots, watches,
                       writesLeft, doneAtEvent, pipelineVars, child, eofReads,
                       faultsLeft, logVars, twin>>

\* line 93, write_text: open(mode="w") truncates roots_file before any data
\* is written
add_open(w) ==
    /\ apc[w] = "open"
    /\ apc' = [apc EXCEPT ![w] = "write"]
    /\ file' = <<>>
    /\ exists' = TRUE
    /\ UNCHANGED <<aroots, aarg, addsLeft, completed, everPresent, daemonVars,
                   pipelineVars, child, eofReads, faultsLeft, logVars, twin>>

\* line 93, write_text: the joined text is written and the file closed; the
\* close is reported by the event source when roots_file is watched.  A
\* file removed since it was opened takes the text with it
add_write(w) ==
    /\ apc[w] = "write"
    /\ apc' = [apc EXCEPT ![w] = "idle"]
    /\ aroots' = [aroots EXCEPT ![w] = <<>>]
    /\ completed' = completed \cup {aarg[w]}
    /\ IF exists
       THEN /\ file' = RootsText(aroots[w])
            /\ everPresent' = everPresent \cup Registered(RootsText(aroots[w]))
            /\ queue' = IF RootsFileWatched
                        THEN Append(queue, RootsFileEvent)
                        ELSE queue
            /\ twin' = TwinReport(<<UserDir>>, roots_file)
       ELSE UNCHANGED <<file, everPresent, queue, twin>>
    /\ UNCHANGED <<aarg, addsLeft, backend, readable, dpc, roots,
                   watches, writesLeft, doneAtEvent, pipelineVars, sourceVars, logVars>>

\* --------------------------------------------------------- command builder
Digits == {"0", "1", "2", "3", "4", "5", "6", "7", "8", "9"}
DigitVal(c) ==
    CASE c = "0" -> 0 [] c = "1" -> 1 [] c = "2" -> 2 [] c = "3" -> 3
      [] c = "4" -> 4 [] c = "5" -> 5 [] c = "6" -> 6 [] c = "7" -> 7
      [] c = "8" -> 8 [] c = "9" -> 9

\* the character class [0-9.]
VersionChar(c) == c \in Digits \cup {"."}

\* re.findall(r"[0-9.]+", s): the maximal runs of digits and dots, in order
RECURSIVE findall(_)
findall(s) ==
    IF \A i \in DOMAIN s : ~VersionChar(s[i])
    THEN <<>>
    ELSE LET first == CHOOSE i \in DOMAIN s :
                          VersionChar(s[i]) /\ \A j \in 1..(i - 1) : ~VersionChar(s[j])
             last == CHOOSE e \in first..Len(s) :
                         /\ \A j \in first..e : VersionChar(s[j])
                         /\ (e = Len(s) \/ ~VersionChar(s[e + 1]))
         IN  <<SubSeq(s, first, last)>> \o findall(SubSeq(s, last + 1, Len(s)))

\* int(part) for a run of digits; int("") raises ValueError
RECURSIVE IntOf(_)
IntOf(part) ==
    IF part = <<>> THEN 0
    ELSE 10 * IntOf(SubSeq(part, 1, Len(part) - 1)) + DigitVal(part[Len(part)])

\* lines 155-157: number + [0] * (3 - len(number)); a non-positive count
\* repeats nothing
PadNoPadding(v) == v
Pad(v) == v \o [i \in 1..(3 - Len(v)) |-> 0]

\* Python's list comparison a < b: decided by the first index where the
\* lists differ, and by length when one is a prefix of the other
ListLess(a, b) ==
    LET n == IF Len(a) < Len(b) THEN Len(a) ELSE Len(b)
        diff == {i \in 1..n : a[i] # b[i]}
    IN  IF diff = {}
        THEN Len(a) < Len(b)
        ELSE LET k == CHOOSE i \in diff : \A j \in diff : i <= j
             IN  a[k] < b[k]

\* lines 147-157: the outcome of parsing the probe output: the exception
\* raised ("none" when there is none) and inkscape_version_number
ParseVersion(output) ==
    LET runs == findall(output)
    IN  IF runs = <<>>
        THEN [raised |-> "IndexError", number |-> <<>>]
        ELSE LET parts == Split(runs[1], ".")
             IN  IF \E i \in DOMAIN parts : parts[i] = <<>>
                 THEN [raised |-> "ValueError", number |-> <<>>]
                 ELSE [raised |-> "none",
                       number |-> Pad([i \in DOMAIN parts |-> IntOf(parts[i])])]

\* line 139: pdf_path = filepath.parent / (filepath.stem + ".pdf")
PdfPath(fp) == PathJoin(PathParent(fp), PathStem(fp) \o <<".", "pdf">>)

\* lines 160-169 and 171-181: the two argument vectors
LegacyCommand(fp) ==
    << <<"inkscape">>, <<"--export-area-page">>, <<"--export-dpi">>, <<"300">>,
       <<"--export-pdf">>, PdfPath(fp), <<"--export-latex">>, fp >>
ModernCommand(fp) ==
    << <<"inkscape">>, fp, <<"--export-area-page">>, <<"--export-dpi">>,
       <<"300">>, <<"--export-type=pdf">>, <<"--export-latex">>,
       <<"--export-filename">>, PdfPath(fp) >>

\* line 159: if inkscape_version_number < [1, 0, 0]
ExportCommand(num, fp) ==
    IF ListLess(num, <<1, 0, 0>>) THEN LegacyCommand(fp) ELSE ModernCommand(fp)


\* ---------------------------------------------------------------- pipeline
\* str.replace(old, new) on tokens
Replace(s, old, new) == [i \in DOMAIN s |-> IF s[i] = old THEN new ELSE s[i]]

\* beautify(name), lines 35-36 (title() changes letter case only, which
\* tokens do not show)
beautify(name) == Replace(Replace(name, "_", " "), "-", " ")

\* latex_template(name, title), lines 39-52: the lines of the snippet
latex_template(name, title) ==
    << <<"\\begin{figure}[ht]">>,
       <<"    ", "\\centering">>,
       <<"    ", "\\incfig{">> \o name \o <<"}">>,
       <<"    ", "\\caption{">> \o Replace(Replace(title, "-", " "), "_", " ")
           \o <<"}">>,
       <<"    ", "\\label{fig:">> \o Replace(Replace(title, "-", "_"), " ", "_")
           \o <<"}">>,
       <<"\\end{figure}">> >>

\* line 131: filepath.suffix != ".svg" is what discards an event
IsSvgAnyFile(fp) == TRUE
IsSvg(fp) == PathSuffix(fp) = <<".", "svg">>

\* maybe_recompile_figure(fp), lines 129-137, as called by the daemon loop:
\* a file that is no .svg returns at once, to the loop
Recompile(fp) ==
    IF IsSvg(fp)
    THEN /\ filepath' = fp
         /\ dpc' = "probe"
    ELSE /\ dpc' = "wait"
         /\ UNCHANGED filepath

\* what `inkscape --version` may print: 1.0, 0.92, no digit at all, and a
\* run with an empty component
ProbeOutputs ==
    { <<"1", ".", "0">>, <<"0", ".", "9", "2">>, <<"r">>, <<"1", ".", ".", "0">> }

\* lines 142-145: subprocess.check_output(["inkscape", "--version"]); a
\* failing child raises CalledProcessError, which nothing catches
probe ==
    /\ dpc = "probe"
    /\ nProbe' = nProbe + 1
    /\ \/ /\ \E out \in ProbeOutputs : version' = out
          /\ dpc' = "build"
          /\ UNCHANGED raised
       \/ /\ raised' = "CalledProcessError"
          /\ dpc' = "dead"
          /\ UNCHANGED version
    /\ UNCHANGED <<registryVars, backend, readable, roots, watches, queue,
                   writesLeft, doneAtEvent, filepath, number, command,
                   returncode, nExport, nSnippet, clipboard, sourceVars, logVars, twin>>

\* lines 147-184: parse the version and build the command; IndexError and
\* ValueError leave the function, and the daemon loop with it
build ==
    /\ dpc = "build"
    /\ LET parsed == ParseVersion(version)
       IN  IF parsed.raised # "none"
           THEN /\ raised' = parsed.raised
                /\ dpc' = "dead"
                /\ UNCHANGED <<number, command>>
           ELSE /\ number' = parsed.number
                /\ command' = ExportCommand(parsed.number, filepath)
                /\ dpc' = "run"
                /\ UNCHANGED raised
    /\ UNCHANGED <<registryVars, backend, readable, roots, watches, queue,
                   writesLeft, doneAtEvent, filepath, version, returncode,
                   nProbe, nExport, nSnippet, clipboard, sourceVars, logVars, twin>>

\* lines 188-193: the return code is logged, and the snippet follows in
\* both cases
AfterExportOnlyOnSuccess(rc) == IF rc = 0 THEN "copy" ELSE "wait"
AfterExport(rc) == "copy"

\* lines 186-191: subprocess.run(command) waits for the child to end
run ==
    /\ dpc = "run"
    /\ \E rc \in {0, 1} :
          /\ returncode' = rc
          /\ dpc' = AfterExport(rc)
    /\ nExport' = nExport + 1
    /\ UNCHANGED <<registryVars, backend, readable, roots, watches, queue,
                   writesLeft, doneAtEvent, filepath, version, number, command,
                   raised, nProbe, nSnippet, clipboard, sourceVars, logVars, twin>>

\* lines 193-196: template = latex_template(name, beautify(name));
\* pyperclip.copy(template); the function returns and its locals are gone
copy ==
    /\ dpc = "copy"
    /\ clipboard' = latex_template(PathStem(filepath), beautify(PathStem(filepath)))
    /\ nSnippet' = nSnippet + 1
    /\ dpc' = "wait"
    /\ filepath' = <<>>
    /\ version' = <<>>
    /\ number' = <<>>
    /\ command' = <<>>
    /\ UNCHANGED <<registryVars, backend, readable, roots, watches, queue,
                   writesLeft, doneAtEvent, raised, returncode, nProbe, nExport,
                   sourceVars, logVars, twin>>


\* ------------------------------------------------------------------ daemons
\* the daemon is single-threaded: it reads the next event (lines 216, 247)
\* only when maybe_recompile_figure has returned, and check_output (line
\* 142) and subprocess.run (line 186) return when their child has ended
ReadsEventsDuringExport == dpc \in {"wait", "run"}
ReadsEvents == dpc = "wait"

\* i.add_watch(root) succeeds for a directory that exists and can be read
CanWatch(path) == \E d \in readable : path = DirStr(d)

\* lines 219 and 249: the comparison with str(roots_file)
IsRootsFileUserDir(path) == path = <<UserDir>>
IsRootsFile(path) == path = roots_file

\* lines 96-97 inside a daemon: roots_file.read_text() raises
\* FileNotFoundError when roots_file is absent, and nothing catches it
LoadRoots(next) ==
    IF exists
    THEN /\ roots' = get_roots(file)
         /\ dpc' = next
         /\ UNCHANGED raised
    ELSE /\ raised' = "FileNotFoundError"
         /\ dpc' = "dead"
         /\ UNCHANGED roots

\* watch_daemon_inotify, line 204: roots = get_roots()
inotify_load ==
    /\ backend = "inotify"
    /\ dpc = "load"
    /\ LoadRoots("mkwatch")
    /\ UNCHANGED <<registryVars, backend, readable, watches, queue, writesLeft,
                   doneAtEvent, filepath, version, number, command, returncode,
                   nProbe, nExport, nSnippet, clipboard, sourceVars, logVars, twin>>

\* lines 206-207: a new Inotify instance replaces the previous one, whose
\* unread events are gone with it, and roots_file is watched
inotify_new ==
    /\ backend = "inotify"
    /\ dpc = "mkwatch"
    /\ watches' = {roots_file}
    /\ queue' = <<>>
    /\ dpc' = "addroots"
    /\ UNCHANGED <<registryVars, backend, readable, roots, writesLeft,
                   doneAtEvent, pipelineVars, sourceVars, logVars, twin>>

\* lines 210-214: the roots the loop registers: every root whose add_watch
\* succeeds, the failure of one root being caught inside the loop
WatchableRootsUntilFailure(rs) ==
    {rs[i] : i \in {k \in DOMAIN rs : \A j \in 1..k : CanWatch(rs[j])}}
WatchableRoots(rs) == {r \in Range(rs) : CanWatch(r)}

\* lines 209-214: add_watch for every root, a failure is logged and skipped
inotify_add_roots ==
    /\ backend = "inotify"
    /\ dpc = "addroots"
    /\ watches' = watches \cup WatchableRoots(roots)
    /\ dpc' = "wait"
    /\ UNCHANGED <<registryVars, backend, readable, roots, queue, writesLeft,
                   doneAtEvent, pipelineVars, sourceVars, logVars, twin>>

\* lines 221-226: remove_watch(root) for every root of the snapshot; the
\* watch of roots_file stays
RemoveWatchesNone(ws, rs) == ws
RemoveWatches(ws, rs) == ws \ Range(rs)

\* lines 216-227: the next event is for roots_file: remove_watch for every
\* root, then break to the outer loop
inotify_roots_event ==
    /\ backend = "inotify"
    /\ ReadsEvents
    /\ queue # <<>>
    /\ IsRootsFile(Head(queue).path)
    /\ queue' = Tail(queue)
    /\ watches' = RemoveWatches(watches, roots)
    /\ doneAtEvent' = completed
    /\ dpc' = "load"
    /\ reloads' = reloads + 1
    /\ UNCHANGED <<registryVars, backend, readable, roots, writesLeft,
                   pipelineVars, sourceVars, delivered,
                   dispatched, twin>>

\* lines 216-219 and 229-231: any other event: a file has changed
inotify_file_event ==
    /\ backend = "inotify"
    /\ ReadsEvents
    /\ queue # <<>>
    /\ ~IsRootsFile(Head(queue).path)
    /\ queue' = Tail(queue)
    /\ Recompile(PathJoin(Head(queue).path, Head(queue).filename))
    /\ dispatched' = Append(dispatched, PathJoin(Head(queue).path, Head(queue).filename))
    /\ UNCHANGED <<registryVars, backend, readable, roots, watches, writesLeft,
                   doneAtEvent, version, number, command, raised, returncode,
                   nProbe, nExport, nSnippet, clipboard, sourceVars, delivered,
                   reloads, twin>>

\* watch_daemon_fswatch, line 236: roots = get_roots()
fswatch_load ==
    /\ backend = "fswatch"
    /\ dpc = "load"
    /\ LoadRoots("spawn")
    /\ UNCHANGED <<registryVars, backend, readable, watches, queue, writesLeft,
                   doneAtEvent, filepath, version, number, command, returncode,
                   nProbe, nExport, nSnippet, clipboard, sourceVars, logVars, twin>>

\* lines 238-244: Popen(["fswatch", *roots, str(user_dir)]): a new child and
\* a new pipe; what the previous child printed and nobody read is gone
NoChild == [args |-> <<>>, alive |-> FALSE]
FswatchArgsNoSentinel(rs) == <<<<"fswatch">>>> \o rs
FswatchArgs(rs) == <<<<"fswatch">>>> \o rs \o <<<<UserDir>>>>

fswatch_spawn ==
    /\ backend = "fswatch"
    /\ dpc = "spawn"
    /\ child' = [args |-> FswatchArgs(roots), alive |-> TRUE]
    /\ watches' = Range(Tail(child'.args))
    /\ queue' = <<>>
    /\ eofReads' = 0
    /\ dpc' = "wait"
    /\ UNCHANGED <<registryVars, backend, readable, roots, writesLeft,
                   doneAtEvent, pipelineVars, exists, faultsLeft, logVars, twin>>

\* lines 247-253: the line read is str(roots_file): p.terminate() and break
fswatch_roots_line ==
    /\ backend = "fswatch"
    /\ ReadsEvents
    /\ queue # <<>>
    /\ IsRootsFile(Head(queue))
    /\ queue' = Tail(queue)
    /\ child' = NoChild
    /\ watches' = {}
    /\ doneAtEvent' = completed
    /\ dpc' = "load"
    /\ reloads' = reloads + 1
    /\ UNCHANGED <<registryVars, backend, readable, roots, writesLeft,
                   pipelineVars, exists, eofReads, faultsLeft, delivered,
                   dispatched, twin>>

\* lines 247-254 once the child has ended and its output is read: readline()
\* returns "", which is not str(roots_file) and goes to
\* maybe_recompile_figure, and the loop reads again
fswatch_eof ==
    /\ backend = "fswatch"
    /\ ReadsEvents
    /\ queue = <<>>
    /\ ~child.alive
    /\ ~IsRootsFile(<<>>)
    /\ eofReads < MaxEofReads
    /\ eofReads' = eofReads + 1
    /\ Recompile(<<>>)
    /\ dispatched' = Append(dispatched, <<>>)
    /\ UNCHANGED <<registryVars, backend, readable, roots, watches, queue,
                   writesLeft, doneAtEvent, version, number, command, raised,
                   returncode, nProbe, nExport, nSnippet, clipboard, exists,
                   child, faultsLeft, delivered,
                   reloads, twin>>

\* lines 247-249 and 254: any other line goes to maybe_recompile_figure
fswatch_file_line ==
    /\ backend = "fswatch"
    /\ ReadsEvents
    /\ queue # <<>>
    /\ ~IsRootsFile(Head(queue))
    /\ queue' = Tail(queue)
    /\ Recompile(Head(queue))
    /\ dispatched' = Append(dispatched, Head(queue))
    /\ UNCHANGED <<registryVars, backend, readable, roots, watches, writesLeft,
                   doneAtEvent, version, number, command, raised, returncode,
                   nProbe, nExport, nSnippet, clipboard, sourceVars, delivered,
                   reloads, twin>>

\* -------------------------------------------------------------- environment
\* names of the files written inside a root, and inside user_dir
FileNames == { <<"figure", ".", "svg">>, <<"figure", ".", "txt">>, <<".", "svg">> }
UserDirNames == { <<"template", ".", "svg">> }

\* a file is closed after a write in a directory the event source watches:
\* event_gen (line 216) or the child's stdout (line 247) delivers it
file_written(path, filename) ==
    /\ writesLeft > 0
    /\ path \in watches \cup twin.watches
    /\ writesLeft' = writesLeft - 1
    /\ IF path \in watches
       THEN /\ queue' = Append(queue, EventOf(path, filename))
            /\ delivered' = Append(delivered, PathJoin(path, filename))
       ELSE UNCHANGED <<queue, delivered>>
    /\ twin' = TwinReport(path, PathJoin(path, filename))
    /\ UNCHANGED <<registryVars, backend, readable, dpc, roots, watches,
                   doneAtEvent, pipelineVars, sourceVars, dispatched,
                   reloads>>

\* roots_file is removed.  fswatch, which watches user_dir, prints its path;
\* the inotify watch of the file ends with the file, and the event of its
\* end may be yielded for the path of the watch
roots_file_deleted ==
    /\ faultsLeft > 0
    /\ exists
    /\ faultsLeft' = faultsLeft - 1
    /\ exists' = FALSE
    /\ file' = <<>>
    /\ watches' = watches \ {roots_file}
    /\ \/ /\ RootsFileWatched
          /\ queue' = Append(queue, RootsFileEvent)
       \/ /\ backend = "inotify" \/ ~RootsFileWatched
          /\ UNCHANGED queue
    /\ twin' = TwinReport(<<UserDir>>, roots_file)
    /\ UNCHANGED <<apc, aroots, aarg, addsLeft, completed, everPresent, backend,
                   readable, dpc, roots, writesLeft, doneAtEvent, pipelineVars,
                   child, eofReads, logVars>>

\* the fswatch child ends by itself: it reports nothing more, and its
\* stdout is at end-of-file once the lines it printed are read
child_exits ==
    /\ faultsLeft > 0
    /\ child.alive
    /\ faultsLeft' = faultsLeft - 1
    /\ child' = [child EXCEPT !.alive = FALSE]
    /\ watches' = {}
    /\ UNCHANGED <<registryVars, backend, readable, dpc, roots, queue,
                   writesLeft, doneAtEvent, pipelineVars, exists, eofReads, logVars, twin>>

\* ------------------------------------------------------------ second daemon
\* watch_daemon_fswatch (lines 234-254) run beside the inotify daemon, on
\* the same roots_file and the same file changes
NoTwin ==
    [pc |-> "off", roots |-> <<>>, watches |-> {}, queue |-> <<>>,
     dispatched |-> <<>>, reloads |-> 0]

\* line 236: roots = get_roots()
twin_load ==
    /\ twin.pc = "load"
    /\ twin' = IF exists
               THEN [twin EXCEPT !.roots = get_roots(file), !.pc = "spawn"]
               ELSE [twin EXCEPT !.pc = "dead"]
    /\ UNCHANGED <<registryVars, daemonVars, pipelineVars, sourceVars, logVars>>

\* lines 238-244: Popen(["fswatch", *roots, str(user_dir)])
twin_spawn ==
    /\ twin.pc = "spawn"
    /\ twin' = [twin EXCEPT !.watches = Range(Tail(FswatchArgs(twin.roots))),
                            !.queue = <<>>,
                            !.pc = "wait"]
    /\ UNCHANGED <<registryVars, daemonVars, pipelineVars, sourceVars, logVars>>

\* lines 247-253: the line read is str(roots_file): p.terminate() and break
twin_roots_line ==
    /\ twin.pc = "wait"
    /\ twin.queue # <<>>
    /\ IsRootsFile(Head(twin.queue))
    /\ twin' = [twin EXCEPT !.queue = Tail(@),
                            !.watches = {},
                            !.reloads = @ + 1,
                            !.pc = "load"]
    /\ UNCHANGED <<registryVars, daemonVars, pipelineVars, sourceVars, logVars>>

\* lines 247-249 and 254: any other line goes to maybe_recompile_figure,
\* which returns at once unless the suffix is .svg (line 131)
twin_file_line ==
    /\ twin.pc = "wait"
    /\ twin.queue # <<>>
    /\ ~IsRootsFile(Head(twin.queue))
    /\ twin' = [twin EXCEPT !.queue = Tail(@),
                            !.dispatched = Append(@, Head(twin.queue)),
                            !.pc = IF IsSvg(Head(twin.queue))
                                   THEN "convert"
                                   ELSE "wait"]
    /\ UNCHANGED <<registryVars, daemonVars, pipelineVars, sourceVars, logVars>>

\* lines 139-196 in the second daemon: the probe, the export and the
\* snippet run to their end and the function returns, or the probe or the
\* parse raises and the daemon ends
twin_convert ==
    /\ twin.pc = "convert"
    /\ \E pos \in {"wait", "dead"} : twin' = [twin EXCEPT !.pc = pos]
    /\ UNCHANGED <<registryVars, daemonVars, pipelineVars, sourceVars, logVars>>

\* ----------------------------------------------------------- specifications
NoLocals ==
    /\ filepath = <<>>
    /\ version = <<>>
    /\ number = <<>>
    /\ command = <<>>
    /\ raised = "none"
    /\ returncode = 0
    /\ nProbe = 0
    /\ nExport = 0
    /\ nSnippet = 0
    /\ clipboard = <<>>

EmptyRegistry ==
    /\ file = <<>>
    /\ apc = [w \in Writers |-> "idle"]
    /\ aroots = [w \in Writers |-> <<>>]
    /\ aarg = [w \in Writers |-> <<>>]
    /\ addsLeft = MaxAdds
    /\ completed = {}
    /\ everPresent = {}

\* the module has been imported (roots_file exists, lines 73-74) and watch()
\* has started the daemon of the platform (lines 111-126)
Init ==
    /\ EmptyRegistry
    /\ backend \in {"inotify", "fswatch"}
    /\ readable \in SUBSET Dirs
    /\ dpc = "load"
    /\ roots = <<>>
    /\ watches = {}
    /\ queue = <<>>
    /\ writesLeft = MaxWrites
    /\ doneAtEvent = {}
    /\ NoLocals
    /\ exists = TRUE
    /\ child = NoChild
    /\ eofReads = 0
    /\ faultsLeft = MaxFaults
    /\ delivered = <<>>
    /\ dispatched = <<>>
    /\ reloads = 0
    /\ twin = NoTwin

Writer ==
    \E w \in Writers :
        \/ \E d \in Dirs : add_read(w, d)
        \/ add_open(w)
        \/ add_write(w)

Environment ==
    \/ \E d \in readable, n \in FileNames : file_written(DirStr(d), n)
    \/ \E n \in UserDirNames : file_written(<<UserDir>>, n)

Next ==
    \/ Writer
    \/ Environment
    \/ inotify_load
    \/ inotify_new
    \/ inotify_add_roots
    \/ inotify_roots_event
    \/ inotify_file_event
    \/ fswatch_load
    \/ fswatch_spawn
    \/ fswatch_roots_line
    \/ fswatch_file_line
    \/ probe
    \/ build
    \/ run
    \/ copy

Spec == Init /\ [][Next]_vars

\* the daemons in an environment where roots_file can be removed and the
\* fswatch child can end
Fault ==
    \/ roots_file_deleted
    \/ child_exits

FaultNext ==
    \/ Next
    \/ Fault
    \/ fswatch_eof

FaultSpec == Init /\ [][FaultNext]_vars

\* the two daemons side by side: the inotify daemon and the fswatch daemon
\* both start, with the same roots_file and in the same environment
PairInit ==
    /\ EmptyRegistry
    /\ backend = "inotify"
    /\ readable \in SUBSET Dirs
    /\ dpc = "load"
    /\ roots = <<>>
    /\ watches = {}
    /\ queue = <<>>
    /\ writesLeft = MaxWrites
    /\ doneAtEvent = {}
    /\ NoLocals
    /\ exists = TRUE
    /\ child = NoChild
    /\ eofReads = 0
    /\ faultsLeft = 0
    /\ delivered = <<>>
    /\ dispatched = <<>>
    /\ reloads = 0
    /\ twin = [NoTwin EXCEPT !.pc = "load"]

PairNext ==
    \/ Writer
    \/ Environment
    \/ inotify_load
    \/ inotify_new
    \/ inotify_add_roots
    \/ inotify_roots_event
    \/ inotify_file_event
    \/ probe
    \/ build
    \/ run
    \/ copy
    \/ twin_load
    \/ twin_spawn
    \/ twin_roots_line
    \/ twin_file_line
    \/ twin_convert

PairSpec == PairInit /\ [][PairNext]_vars


\* the command builder alone (lines 139-181), entered with every version
\* output over VersionAlphabet up to MaxVerLen characters and the outputs the
\* specification names
VersionAlphabet == {"0", "1", "9", ".", "r"}
NamedVersions ==
    { <<"1", ".", "0", ".", "0">>,
      <<"1", ".", "0", ".", "0", "r", "c", "1">>,
      <<"1", ".", "2", ".", "0">>,
      <<"0", ".", "9", "2", ".", "4">>,
      <<"0", ".", "9", "9", ".", "9">>,
      <<"0", ".", "0", ".", "0">>,
      <<"1", ".", "0", ".", "0", ".", "1">>,
      <<"I", "n", "k", "s", "c", "a", "p", "e", " ", "1", ".", "0", ".", "2", " ",
        "(", "e", "8", "6", ")">> }
VersionOutputs ==
    UNION {[1..n -> VersionAlphabet] : n \in 0..MaxVerLen} \cup NamedVersions
BuilderPaths ==
    { PathJoin(<<"a">>, <<"figure", ".", "svg">>),
      PathJoin(<<"b">>, <<"fig", ".", "v2", ".", "svg">>) }

BuilderInit ==
    /\ EmptyRegistry
    /\ backend = "inotify"
    /\ readable = Dirs
    /\ dpc = "build"
    /\ roots = <<>>
    /\ watches = {}
    /\ queue = <<>>
    /\ writesLeft = 0
    /\ doneAtEvent = {}
    /\ filepath \in BuilderPaths
    /\ version \in VersionOutputs
    /\ number = <<>>
    /\ command = <<>>
    /\ raised = "none"
    /\ returncode = 0
    /\ nProbe = 1
    /\ nExport = 0
    /\ nSnippet = 0
    /\ clipboard = <<>>
    /\ exists = TRUE
    /\ child = NoChild
    /\ eofReads = 0
    /\ faultsLeft = 0
    /\ delivered = <<>>
    /\ dispatched = <<>>
    /\ reloads = 0
    /\ twin = NoTwin

BuilderNext == build

BuilderSpec == BuilderInit /\ [][BuilderNext]_vars


\* ------------------------------------------------------------------ claims
\* the directories the event source reports changes of
LiveRoots == {r \in watches : CanWatch(r)}
\* the valid, readable directories of the persisted registry
ValidRegistered == {r \in Registered(file) : CanWatch(r)}
\* no add_root call is under way
WritersAtRest == \A w \in Writers : apc[w] \in {"idle", "noop"}
\* the daemon is blocked on the event source and nothing is left to deliver
Quiescent == dpc = "wait" /\ queue = <<>> /\ WritersAtRest
\* the positions of the Watching state: the loop of lines 216-231 (247-254),
\* the pipeline it calls included
WatchingPositions == {"wait", "probe", "build", "run", "copy"}

\* C1: once the registry has stopped changing and no event is left, the
\* daemon's live watch set equals the valid, readable directories of the
\* persisted registry.  A daemon blocked on an empty event source with no
\* add_root under way stays as it is for ever, so the claim asks for the
\* equality in every such state.
C1_WatchSetConverges == Quiescent => LiveRoots = ValidRegistered

\* C2: after the reload triggered by a registry event, every path whose
\* add_root had returned before the daemon read that event is watched, when
\* it is a valid, readable directory.
C2_ReloadPicksUpAddedRoot ==
    dpc \in WatchingPositions =>
        \A p \in doneAtEvent : CanWatch(p) => p \in watches

\* the daemon reads the head of the event queue in this step
ConsumesHead == dpc = "wait" /\ queue # <<>> /\ queue' = Tail(queue)
\* the head of the queue is the event of roots_file itself
HeadIsRootsFile ==
    IF backend = "inotify"
    THEN Head(queue).path = roots_file
    ELSE Head(queue) = roots_file
\* the file the head of the queue is about
HeadPath ==
    IF backend = "inotify"
    THEN PathJoin(Head(queue).path, Head(queue).filename)
    ELSE Head(queue)
NoConverterStep ==
    /\ nProbe' = nProbe
    /\ nExport' = nExport
    /\ nSnippet' = nSnippet

\* C3: in both backends an event of roots_file is never given to the
\* pipeline: reading it starts a reload, with no version probe and no export.
C3_RegistryEventOnlyReloads ==
    /\ [](filepath # roots_file)
    /\ [][(ConsumesHead /\ HeadIsRootsFile) =>
             (dpc' = "load" /\ filepath' = filepath /\ NoConverterStep)]_vars
\* a registry event has been read and the reload is under way, no converter
\* having run
C3_Witness == dpc = "load" /\ doneAtEvent # {} /\ nProbe = 0 /\ nExport = 0

\* C4: no failure of the external world (converter exit status, version
\* probe, watch registration) ends the daemon loop.
C4_DaemonKeepsRunning == dpc # "dead"

\* C5: every path that a finished write has put into the persisted registry
\* is still in it (the moments in which a write_text has truncated the file
\* and not yet written it are not counted against the claim).
C5_RegistryOnlyGrows ==
    (\A w \in Writers : apc[w] # "write") => everPresent \subseteq Registered(file)


NoDuplicates(s) == \A i, j \in DOMAIN s : i # j => s[i] # s[j]
\* writer w calls add_root(p) in this step (lines 87-92)
CallsAdd(w, p) ==
    /\ apc[w] \in {"idle", "noop"}
    /\ addsLeft' = addsLeft - 1
    /\ aarg'[w] = p
    /\ apc'[w] \in {"noop", "open"}
    /\ \A v \in Writers \ {w} : apc'[v] = apc[v] /\ aarg'[v] = aarg[v]

\* C6: starting from the empty registry no path is ever twice in the
\* persisted registry, and add_root(p) on a registry that holds p returns
\* without touching the file.
C6_AddIdempotentUnique ==
    /\ [](NoDuplicates(get_roots(file)))
    /\ [][\A w \in Writers, d \in Dirs :
             (CallsAdd(w, DirStr(d)) /\ DirStr(d) \in Registered(file)) =>
                 (file' = file /\ apc'[w] = "noop")]_vars
\* an add_root call has found its path in the registry and returned, the
\* registry holding that path once
C6_Witness ==
    \E w \in Writers :
        /\ apc[w] = "noop"
        /\ aarg[w] \in Registered(file)
        /\ Cardinality({i \in DOMAIN get_roots(file) : get_roots(file)[i] = aarg[w]}) = 1

\* the name of p ends in ".svg"
HasSvgExtension(p) == Len(p) >= 2 /\ p[Len(p) - 1] = "." /\ p[Len(p)] = "svg"

\* C7: an event for a file whose extension is not .svg is dropped when it is
\* read: no version probe, no export, no snippet, and the daemon waits for
\* the next event.
C7_NonSvgDiscarded ==
    /\ [](dpc \in {"probe", "build", "run", "copy"} => HasSvgExtension(filepath))
    /\ [][(ConsumesHead /\ ~HeadIsRootsFile /\ ~HasSvgExtension(HeadPath)) =>
             (dpc' = "wait" /\ filepath' = filepath /\ NoConverterStep)]_vars
\* No registry event has been read, so the event source of the first load is
\* still the current one and none of its events was dropped; a file write
\* has been delivered and read, and no probe was started for it: it was
\* discarded.
C7_Witness ==
    /\ doneAtEvent = {}
    /\ writesLeft < MaxWrites
    /\ queue = <<>>
    /\ dpc = "wait"
    /\ nProbe = 0

\* the stem of a path whose name ends in ".svg"
SvgStem(p) == SubSeq(p, LastSlash(p) + 1, Len(p) - 2)
\* the text holds \incfig{<stem>}
HasIncfig(text, stem) ==
    \E i \in DOMAIN text :
        \E k \in 1..Len(text[i]) :
            SubSeq(text[i], k, Len(text[i])) = <<"\\incfig{">> \o stem \o <<"}">>

\* C8: every export that has run is followed by exactly one snippet
\* dispatch, whatever the exit status, made after the export has ended and
\* before anything else; the snippet names the stem of the file.
C8_OneSnippetPerExport ==
    /\ [](nSnippet = IF dpc = "copy" THEN nExport - 1 ELSE nExport)
    /\ [][nExport' # nExport => (dpc = "run" /\ dpc' = "copy")]_vars
    /\ [][nSnippet' # nSnippet =>
             /\ dpc = "copy"
             /\ nSnippet' = nSnippet + 1
             /\ HasIncfig(clipboard', SvgStem(filepath))
             /\ (PathName(filepath) = <<"figure", ".", "svg">> =>
                     <<"    ", "\\incfig{", "figure", "}">> \in Range(clipboard'))]_vars
\* a snippet has been dispatched after an export that failed
C8_Witness ==
    /\ dpc = "wait"
    /\ nSnippet >= 1
    /\ returncode # 0
    /\ HasIncfig(clipboard, <<"figure">>)

\* C9: building the export command raises for no version string, and a
\* string without a numeric version gives the command of "0.0.0".
C9_BuildNeverRaises ==
    dpc # "build" =>
        /\ raised = "none"
        /\ dpc = "run"
        /\ command = ExportCommand(<<0, 0, 0>>, filepath)
             \/ ParseVersion(version).raised = "none"

IsLegacyForm(c, fp) ==
    /\ Len(c) = 8
    /\ c[5] = <<"--export-pdf">>
    /\ c[7] = <<"--export-latex">>
    /\ c[8] = fp
IsModernForm(c, fp) ==
    /\ Len(c) = 9
    /\ c[2] = fp
    /\ c[6] = <<"--export-type=pdf">>
    /\ c[8] = <<"--export-filename">>
\* the output path of a command
OutputPath(c) == IF Len(c) = 8 THEN c[6] ELSE c[9]
\* <stem>.pdf in the directory of a path whose name ends in ".svg"
SvgToPdf(p) == SubSeq(p, 1, Len(p) - 1) \o <<"pdf">>
\* n < (1, 0, 0), lexicographically, for a tuple of three or more naturals
BelowOne(n) ==
    \/ n[1] < 1
    \/ n[1] = 1 /\ n[2] < 0
    \/ n[1] = 1 /\ n[2] = 0 /\ n[3] < 0

\* C10: for every version that parses, the version tuple has at least three
\* components, the legacy form is chosen exactly when the tuple is below
\* (1,0,0) and the modern form otherwise; 1.0.0, 1.0 and 1.0.0rc1 give the
\* modern form, 0.92.4 and 0.99.9 the legacy form; the output path is
\* <stem>.pdf next to the source.
C10_FormFollowsVersion ==
    dpc = "run" =>
        /\ Len(number) >= 3
        /\ BelowOne(number) => IsLegacyForm(command, filepath)
        /\ ~BelowOne(number) => IsModernForm(command, filepath)
        /\ ~(IsLegacyForm(command, filepath) /\ IsModernForm(command, filepath))
        /\ version \in { <<"1", ".", "0", ".", "0">>, <<"1", ".", "0">>,
                         <<"1", ".", "0", ".", "0", "r", "c", "1">> }
               => IsModernForm(command, filepath)
        /\ version \in { <<"0", ".", "9", "2", ".", "4">>,
                         <<"0", ".", "9", "9", ".", "9">> }
               => IsLegacyForm(command, filepath)
        /\ OutputPath(command) = SvgToPdf(filepath)
\* the command has been built for "1.0": padded to (1,0,0), modern form
C10_Witness ==
    /\ dpc = "run"
    /\ version = <<"1", ".", "0">>
    /\ number = <<1, 0, 0>>
    /\ IsModernForm(command, filepath)


\* C11: at daemon start and on every reload the registration of the roots
\* ends in the Watching state, whichever roots fail; there roots_file is
\* watched and so is every root of the snapshot that can be registered.
C11_RegistrationFailureIsolated ==
    /\ [](dpc \in WatchingPositions =>
             /\ RootsFileWatched
             /\ \A i \in DOMAIN roots : CanWatch(roots[i]) => roots[i] \in watches)
    /\ [][(dpc \in {"addroots", "spawn"} /\ dpc' # dpc) => dpc' = "wait"]_vars
\* the push daemon watches with a snapshot whose first root could not be
\* registered and whose second root is watched
C11_Witness ==
    /\ backend = "inotify"
    /\ dpc = "wait"
    /\ Len(roots) = 2
    /\ ~CanWatch(roots[1])
    /\ roots[2] \in watches
    /\ roots_file \in watches


\* C12: once the stream of the event source has closed and the daemon has
\* read its end, the daemon has left its loop.
C12_ClosedStreamEndsDaemon == eofReads > 0 => dpc \notin WatchingPositions

\* C13: a load that runs while roots_file is absent raises nothing, returns
\* the empty registry and leaves roots_file created.
C13_LoadFailsSoft ==
    [][(dpc = "load" /\ ~exists /\ dpc' # dpc)
          => (roots' = <<>> /\ exists' /\ raised' = raised /\ dpc' # "dead")]_vars


\* the argument maybe_recompile_figure gets for an unread event
DispatchOf(e) ==
    IF backend = "inotify" THEN PathJoin(e.path, e.filename) ELSE e
IsRegistryEvent(e) ==
    IF backend = "inotify" THEN IsRootsFile(e.path) ELSE IsRootsFile(e)
RECURSIVE PendingDispatches(_)
PendingDispatches(q) ==
    IF q = <<>>
    THEN <<>>
    ELSE IF IsRegistryEvent(Head(q))
         THEN PendingDispatches(Tail(q))
         ELSE <<DispatchOf(Head(q))>> \o PendingDispatches(Tail(q))

\* C14: the dispatches the daemon has made, followed by the file events it
\* has not read yet, are the delivered file events in their order of
\* delivery: none is dropped, merged or reordered.
C14_NoEventDropped == dispatched \o PendingDispatches(queue) = delivered


\* C15: with the push backend, every directory that has a watch is a root
\* of the snapshot read by the latest load, and once an Inotify instance
\* exists it holds the watch of roots_file.
C15_WatchSetInvariant ==
    backend = "inotify" =>
        /\ (watches \ {roots_file}) \subseteq Range(roots)
        /\ (dpc \in {"load", "mkwatch"} /\ watches = {}) \/ roots_file \in watches
\* the push daemon watches two roots and roots_file after a reload
C15_Witness ==
    /\ backend = "inotify"
    /\ dpc = "wait"
    /\ doneAtEvent # {}
    /\ Cardinality(watches) = 3


\* the positions inside maybe_recompile_figure, and the order of its steps
PipelinePositions == {"probe", "build", "run", "copy"}
NextPosition(pos) ==
    CASE pos = "probe" -> "build"
      [] pos = "build" -> "run"
      [] pos = "run" -> "copy"
      [] pos = "copy" -> "wait"
\* q2 is q with events added at its end
Extends(q2, q) == Len(q2) >= Len(q) /\ SubSeq(q2, 1, Len(q)) = q

\* C16: at most one converter run is under way, and until it has ended the
\* daemon takes no event and does no reload: the probe, then the export,
\* then the snippet, and only then the next event.
C16_OneConverterAtATime ==
    /\ [](nSnippet <= nExport /\ nExport <= nProbe /\ nProbe <= nSnippet + 1)
    /\ [][(dpc \in PipelinePositions) =>
             (/\ Extends(queue', queue)
              /\ dispatched' = dispatched
              /\ roots' = roots
              /\ watches' = watches
              /\ child' = child
              /\ dpc' \in {dpc, NextPosition(dpc), "dead"})]_vars
\* an event waits unread while the export runs
C16_Witness == dpc = "run" /\ queue # <<>>


\* C17: with the polling backend, reading a registry event terminates the
\* child and goes to the load; the load reads the registry; the spawn, made
\* with no child running, starts a child whose arguments are the roots just
\* read followed by user_dir, with a new and empty pipe; events are read
\* only while that child is the current one.
C17_PollingReload ==
    /\ [](backend = "fswatch" /\ dpc \in WatchingPositions =>
             /\ child.alive
             /\ child.args = <<<<"fswatch">>>> \o roots \o <<<<UserDir>>>>
             /\ watches = Range(roots) \cup {<<UserDir>>})
    /\ [][backend = "fswatch" =>
             (/\ (ConsumesHead /\ HeadIsRootsFile) =>
                    (~child'.alive /\ dpc' = "load")
              /\ (dpc = "load" /\ dpc' # dpc) =>
                    (roots' = get_roots(file) /\ dpc' = "spawn" /\ ~child'.alive)
              /\ (dpc = "spawn" /\ dpc' # dpc) =>
                    /\ ~child.alive
                    /\ child'.alive
                    /\ child'.args = <<<<"fswatch">>>> \o roots \o <<<<UserDir>>>>
                    /\ queue' = <<>>
                    /\ dpc' = "wait")]_vars
\* after a reload the child runs with both roots and user_dir
C17_Witness ==
    /\ backend = "fswatch"
    /\ dpc = "wait"
    /\ doneAtEvent # {}
    /\ Len(child.args) = 4
    /\ child.alive


\* C19: in either backend a converter run is under way only for a file that
\* lies in a root of the daemon's registry snapshot; a file that lies only
\* in user_dir never starts one.
C19_ConverterOnlyUnderRoots ==
    dpc \in PipelinePositions => PathParent(filepath) \in Range(roots)


\* both daemons wait for an event, each has read all that was delivered to
\* it, and no writer is inside add_root
BothAtRest ==
    /\ WritersAtRest
    /\ dpc = "wait" /\ queue = <<>>
    /\ twin.pc = "wait" /\ twin.queue = <<>>

\* C18: run side by side on the same registry and the same file changes,
\* the two backends have made the same reloads, the same dispatches to
\* maybe_recompile_figure and the same converter runs whenever both are at
\* rest.
C18_BackendsInterchangeable ==
    BothAtRest =>
        /\ twin.reloads = reloads
        /\ twin.dispatched = dispatched
        /\ SelectSeq(twin.dispatched, IsSvg) = SelectSeq(dispatched, IsSvg)

====
